---- MODULE Spec2Model ----
(***************************************************************************)
(* Model of gti's bootstrap: git_validate_status (the git check and the    *)
(* upward search for `.git`), GtiManager::new (sidecar provisioning) and   *)
(* main (exit status and output).                                          *)
(*                                                                         *)
(* A path is the sequence of its components below the filesystem root, so  *)
(* the root is << >> and /d/.git is << "d", ".git" >>.  The filesystem is  *)
(* a function from paths to "none", "file" or "dir".                       *)
(***************************************************************************)
EXTENDS Integers, Sequences, FiniteSets, TLC

\* Depth of the deepest directory of the modelled tree.
MaxDepth == 2
\* Calls of GtiManager::new each instance makes under SpecMgr.
MaxCalls == 2

\* Processes that may run GtiManager::new; main is instance 1.
Instances == {1, 2}

DirName == "d"
LookFor == ".git"
SidecarName == "x-gti-info"
Decoy == ".gitignore"
LogPrefix == "gti: "

\* ---------------------------------------------------------------- paths

Join(p, name) == Append(p, name)

Parent(p) == SubSeq(p, 1, Len(p) - 1)

\* Path::parent().is_some(): only the root has no parent.
HasParent(p) == Len(p) > 0

\* A pop that leaves the path as it is.
PopStays(p) == p
\* PathBuf::pop: drops the last component, leaves the root alone.
Pop(p) == IF Len(p) > 0 THEN SubSeq(p, 1, Len(p) - 1) ELSE p

\* Path::file_name as an Option: << >> is None, << n >> is Some(n).
FileName(p) == IF Len(p) > 0 THEN << p[Len(p)] >> ELSE << >>

\* The closure given to find: the final component equals look_for.
IsLookFor(p) ==
    CASE FileName(p) # << >> -> FileName(p)[1] = LookFor
      [] OTHER -> FALSE

Chain(k) == [i \in 1..k |-> DirName]
ChainDirs == {Chain(k) : k \in 0..MaxDepth}
GitPaths == {Join(d, LookFor) : d \in ChainDirs}
SidePaths == {Join(g, SidecarName) : g \in GitPaths}
DecoyPaths == {Join(d, Decoy) : d \in ChainDirs}
Paths == ChainDirs \cup GitPaths \cup SidePaths \cup DecoyPaths

\* ----------------------------------------------------------- filesystem

\* What each directory of the chain holds under the name `.git`.
GitOptions == {"none", "file", "dir", "dir+sidecar"}

FsOf(opt) ==
    [p \in Paths |->
        IF p \in ChainDirs THEN "dir"
        ELSE IF p \in DecoyPaths THEN "file"
        ELSE IF p \in GitPaths THEN
            (CASE opt[Parent(p)] = "none" -> "none"
               [] opt[Parent(p)] = "file" -> "file"
               [] OTHER -> "dir")
        ELSE IF opt[Parent(Parent(p))] = "dir+sidecar" THEN "dir" ELSE "none"]

FsChoices == {FsOf(opt) : opt \in [ChainDirs -> GitOptions]}

\* Path::exists.
Exists(f, p) == p \in Paths /\ f[p] # "none"

Children(f, d) == {p \in Paths : Len(p) = Len(d) + 1 /\ Parent(p) = d /\ f[p] # "none"}

\* Every order in which a directory listing may yield the entries.
Orders(S) == {s \in [1..Cardinality(S) -> S] : \A x \in S : \E i \in DOMAIN s : s[i] = x}

\* ------------------------------------------------------------- I/O faults

NoPath == << "-" >>
NoFault == [kind |-> "none", at |-> NoPath]
NoIo == [op |-> "none", at |-> NoPath, kind |-> "none"]
IoErr(op, at, kind) == [op |-> op, at |-> at, kind |-> kind]

Faults ==
    {NoFault}
    \cup {[kind |-> "cwd", at |-> NoPath]}
    \cup {[kind |-> "read_dir", at |-> d] : d \in ChainDirs}
    \cup {[kind |-> "entry", at |-> p] : p \in GitPaths \cup (ChainDirs \ {<< >>})}
    \cup {[kind |-> "create", at |-> NoPath]}

\* ---------------------------------------------------------------- values

Res(tag, path, io) == [tag |-> tag, path |-> path, io |-> io]
NoRes == Res("none", NoPath, NoIo)

\* #[error(...)] of InitializationError, and io::Error's kind for main's `?`.
Display(r) ==
    CASE r.tag = "GitNotInstalled" -> "git is not installed"
      [] r.tag = "GitValidation" -> "could not validate git installation; version check failed"
      [] r.tag = "RepositoryUnsearchable" -> "io error searching for git directory"
      [] r.tag = "RepositoryNotFound" -> "git directory not found"
      [] OTHER -> r.io.kind

\* fallback_log!(e): one line on standard output.
FallbackLog(r) == LogPrefix \o Display(r)

\* ------------------------------------------------------- directory listing

\* cur_dir.read_dir(): the items the iterator yields, in the order given.
ReadDir(flt, order) ==
    [i \in DOMAIN order |->
        IF flt.kind = "entry" /\ flt.at = order[i]
        THEN [ok |-> FALSE, name |-> order[i][Len(order[i])],
              io |-> IoErr("entry", order[i], "Other")]
        ELSE [ok |-> TRUE, name |-> order[i][Len(order[i])], io |-> NoIo]]

\* Iterator::flatten over io::Result<DirEntry>: an Err yields nothing.
Flatten(items) == SelectSeq(items, LAMBDA r : r.ok)

\* .map(|entry| entry.path())
MapPath(d, entries) == [i \in DOMAIN entries |-> Join(d, entries[i].name)]

\* Iterator::find: the first path the closure accepts, as an Option.
Find(paths) ==
    IF \E i \in DOMAIN paths : IsLookFor(paths[i])
    THEN << paths[CHOOSE i \in DOMAIN paths :
                /\ IsLookFor(paths[i])
                /\ \A j \in 1..(i - 1) : ~IsLookFor(paths[j])] >>
    ELSE << >>

\* The items find pulls from the listing: it stops at the first match.
Examined(d, items) ==
    LET hits == {i \in DOMAIN items : items[i].ok /\ IsLookFor(Join(d, items[i].name))}
    IN  IF hits = {} THEN DOMAIN items
        ELSE 1..(CHOOSE i \in hits : \A j \in hits : i <= j)

EntryErrors(d, items) == {items[i].io : i \in {j \in Examined(d, items) : ~items[j].ok}}

\* ---------------------------------------------------------------- state

VARIABLES
    fs,             \* the filesystem
    fs0,            \* the filesystem at the start
    fault,          \* the I/O fault of this run, if any
    gitOutcome,     \* what `git --version` does: "spawn_fail", "nonzero", "ok"
    cwd,            \* the process's working directory
    pc,             \* main's position
    cur_dir,        \* git_validate_status's cur_dir
    result,         \* what git_validate_status returned
    listed,         \* the directories read_dir was called on, in order
    cwdReads,       \* calls of env::current_dir
    spawnAttempts,  \* calls of Command::status
    children,       \* child processes that ran
    seenIo,         \* I/O errors the search met
    stdout,
    stderr,
    exitCode,       \* -1 while running
    mpc,            \* per instance: position in GtiManager::new
    marg,           \* per instance: repo_git_dir
    mres,           \* per instance: the last call's result
    calls,          \* per instance: calls started
    created,        \* directories the tool created, in order
    passed,         \* paths passed as repo_git_dir
    envRemoved,     \* the environment removed a `.git` directory
    overlap         \* two calls of GtiManager::new ran concurrently

locVars == << gitOutcome, cwd, cur_dir, result, listed, cwdReads, spawnAttempts,
              children, seenIo >>
outVars == << stdout, stderr, exitCode >>
mgrVars == << mpc, marg, mres, calls, created, passed, overlap >>
vars == << fs, fs0, fault, pc, locVars, outVars, mgrVars, envRemoved >>

InitCommon ==
    /\ fs \in FsChoices
    /\ fs0 = fs
    /\ cur_dir = NoPath
    /\ result = NoRes
    /\ listed = << >>
    /\ cwdReads = 0
    /\ spawnAttempts = 0
    /\ children = 0
    /\ seenIo = {}
    /\ stdout = << >>
    /\ stderr = << >>
    /\ exitCode = -1
    /\ mpc = [i \in Instances |-> "idle"]
    /\ marg = [i \in Instances |-> NoPath]
    /\ mres = [i \in Instances |-> NoRes]
    /\ calls = [i \in Instances |-> 0]
    /\ created = << >>
    /\ passed = {}
    /\ envRemoved = FALSE
    /\ overlap = FALSE

Init ==
    /\ InitCommon
    /\ fault \in Faults
    /\ gitOutcome \in {"spawn_fail", "nonzero", "ok"}
    /\ cwd \in ChainDirs
    /\ pc = "start"

\* ------------------------------------------------- git_validate_status

\* A match without the `!pass.success()` arm.
GitCheckLenient(outcome) ==
    CASE outcome = "spawn_fail" -> "GitNotInstalled"
      [] OTHER -> "search"
\* The match on Command::status(): which arm is taken.
GitCheck(outcome) ==
    CASE outcome = "nonzero" -> "GitValidation"
      [] outcome = "spawn_fail" -> "GitNotInstalled"
      [] OTHER -> "search"

\* A git that is run a second time.
SpawnedTwice(outcome) == IF outcome = "spawn_fail" THEN 0 ELSE 2
\* Child processes Command::status() runs: none when the spawn fails.
Spawned(outcome) == IF outcome = "spawn_fail" THEN 0 ELSE 1

Returned(r) ==
    /\ result' = r
    /\ pc' = "returned"

\* Command::new("git").arg("--version")...status() and the match on it.
GitVersionCheck ==
    /\ pc = "start"
    /\ spawnAttempts' = spawnAttempts + 1
    /\ children' = children + Spawned(gitOutcome)
    /\ IF GitCheck(gitOutcome) = "search"
       THEN pc' = "read_cwd" /\ result' = result
       ELSE Returned(Res(GitCheck(gitOutcome), NoPath, NoIo))
    /\ UNCHANGED << fs, fs0, fault, gitOutcome, cwd, cur_dir, listed, cwdReads, seenIo,
                    outVars, mgrVars, envRemoved >>

\* let mut cur_dir = env::current_dir()?;
ReadCwd ==
    /\ pc = "read_cwd"
    /\ cwdReads' = cwdReads + 1
    /\ IF fault.kind = "cwd"
       THEN LET e == IoErr("current_dir", NoPath, "NotFound")
            IN  /\ seenIo' = seenIo \cup {e}
                /\ Returned(Res("RepositoryUnsearchable", NoPath, e))
                /\ cur_dir' = cur_dir
       ELSE /\ cur_dir' = cwd
            /\ pc' = "loop"
            /\ UNCHANGED << seenIo, result >>
    /\ UNCHANGED << fs, fs0, fault, gitOutcome, cwd, listed, spawnAttempts, children,
                    outVars, mgrVars, envRemoved >>

\* One iteration of `while cur_dir.parent().is_some()`.
ListDir ==
    /\ pc = "loop"
    /\ HasParent(cur_dir)
    /\ listed' = Append(listed, cur_dir)
    /\ IF fault.kind = "read_dir" /\ fault.at = cur_dir
       THEN LET e == IoErr("read_dir", cur_dir, "PermissionDenied")
            IN  /\ seenIo' = seenIo \cup {e}
                /\ Returned(Res("RepositoryUnsearchable", NoPath, e))
                /\ cur_dir' = cur_dir
       ELSE \E order \in Orders(Children(fs, cur_dir)) :
            LET items == ReadDir(fault, order)
                repo_git_dir == Find(MapPath(cur_dir, Flatten(items)))
            IN  /\ seenIo' = seenIo \cup EntryErrors(cur_dir, items)
                /\ IF repo_git_dir # << >>
                   THEN /\ Returned(Res("Ok", repo_git_dir[1], NoIo))
                        /\ cur_dir' = cur_dir
                   ELSE /\ cur_dir' = Pop(cur_dir)
                        /\ UNCHANGED << pc, result >>
    /\ UNCHANGED << fs, fs0, fault, gitOutcome, cwd, cwdReads, spawnAttempts, children,
                    outVars, mgrVars, envRemoved >>

\* The loop ends at the root: Err(InitializationError::RepositoryNotFound).
LoopExit ==
    /\ pc = "loop"
    /\ ~HasParent(cur_dir)
    /\ Returned(Res("RepositoryNotFound", NoPath, NoIo))
    /\ UNCHANGED << fs, fs0, fault, gitOutcome, cwd, cur_dir, listed, cwdReads,
                    spawnAttempts, children, seenIo, outVars, mgrVars, envRemoved >>

\* ------------------------------------------------------ GtiManager::new

TypeAt(f, p) == IF p \in Paths THEN f[p] ELSE "none"

MkdirOk(f, made) == [ok |-> TRUE, kind |-> "none", fs |-> f, made |-> made]
MkdirErr(f, kind) == [ok |-> FALSE, kind |-> kind, fs |-> f, made |-> << >>]

\* fs::create_dir_all: makes missing parents, succeeds on an existing directory.
MkdirAll(f, flt, p) ==
    CASE TypeAt(f, p) = "dir" -> MkdirOk(f, << p >>)
      [] TypeAt(f, p) = "file" -> MkdirErr(f, "AlreadyExists")
      [] TypeAt(f, Parent(p)) = "file" -> MkdirErr(f, "NotADirectory")
      [] flt.kind = "create" -> MkdirErr(f, "PermissionDenied")
      [] p \notin Paths -> MkdirErr(f, "NotFound")
      [] TypeAt(f, Parent(p)) = "none" ->
            MkdirOk([f EXCEPT ![Parent(p)] = "dir", ![p] = "dir"], << Parent(p), p >>)
      [] OTHER -> MkdirOk([f EXCEPT ![p] = "dir"], << p >>)

\* A create that takes an existing directory for success.
MkdirIdempotent(f, flt, p) ==
    CASE TypeAt(f, p) = "dir" -> MkdirOk(f, << p >>)
      [] TypeAt(f, p) = "file" -> MkdirErr(f, "AlreadyExists")
      [] TypeAt(f, Parent(p)) = "none" -> MkdirErr(f, "NotFound")
      [] TypeAt(f, Parent(p)) = "file" -> MkdirErr(f, "NotADirectory")
      [] flt.kind = "create" -> MkdirErr(f, "PermissionDenied")
      [] p \notin Paths -> MkdirErr(f, "NotFound")
      [] OTHER -> MkdirOk([f EXCEPT ![p] = "dir"], << p >>)

\* DirBuilder::new().create(p): a single, non-recursive mkdir.
Mkdir(f, flt, p) ==
    CASE TypeAt(f, p) # "none" -> MkdirErr(f, "AlreadyExists")
      [] TypeAt(f, Parent(p)) = "none" -> MkdirErr(f, "NotFound")
      [] TypeAt(f, Parent(p)) = "file" -> MkdirErr(f, "NotADirectory")
      [] flt.kind = "create" -> MkdirErr(f, "PermissionDenied")
      [] p \notin Paths -> MkdirErr(f, "NotFound")
      [] OTHER -> MkdirOk([f EXCEPT ![p] = "dir"], << p >>)

\* repo_git_dir.join("x-gti-info")
GtiDir(repo_git_dir) == Join(repo_git_dir, SidecarName)

\* A creation that is not guarded by the existence test.
SidecarMissingAlways(f, repo_git_dir) == TRUE
\* `if !gti_dir.exists()`: whether the sidecar has to be created.
SidecarMissing(f, repo_git_dir) == ~Exists(f, GtiDir(repo_git_dir))

Busy(i) == mpc[i] \notin {"idle", "done"}

MgrReturn(i, r) ==
    /\ mres' = [mres EXCEPT ![i] = r]
    /\ mpc' = [mpc EXCEPT ![i] = "done"]

\* A caller enters GtiManager::new(g).
MgrEnter(i, g) ==
    /\ mpc' = [mpc EXCEPT ![i] = "check_parent"]
    /\ marg' = [marg EXCEPT ![i] = g]
    /\ mres' = [mres EXCEPT ![i] = NoRes]
    /\ calls' = [calls EXCEPT ![i] = @ + 1]
    /\ passed' = passed \cup {g}
    /\ overlap' = (overlap \/ \E j \in Instances \ {i} : Busy(j))

\* if !repo_git_dir.exists() { return Err(NotFound) }
MgrCheckParent(i) ==
    /\ mpc[i] = "check_parent"
    /\ IF ~Exists(fs, marg[i])
       THEN MgrReturn(i, Res("Err", marg[i], IoErr("new", marg[i], "NotFound")))
       ELSE /\ mpc' = [mpc EXCEPT ![i] = "check_sidecar"]
            /\ mres' = mres
    /\ UNCHANGED << fs, fs0, fault, pc, locVars, outVars, marg, calls, created, passed,
                    overlap, envRemoved >>

\* let gti_dir = repo_git_dir.join("x-gti-info"); if !gti_dir.exists() { ... }
MgrCheckSidecar(i) ==
    /\ mpc[i] = "check_sidecar"
    /\ IF SidecarMissing(fs, marg[i])
       THEN /\ mpc' = [mpc EXCEPT ![i] = "create"]
            /\ mres' = mres
       ELSE MgrReturn(i, Res("Ok", GtiDir(marg[i]), NoIo))
    /\ UNCHANGED << fs, fs0, fault, pc, locVars, outVars, marg, calls, created, passed,
                    overlap, envRemoved >>

\* DirBuilder::new().create(&gti_dir)?; Ok(GtiManager { gti_dir })
MgrCreate(i) ==
    /\ mpc[i] = "create"
    /\ LET m == Mkdir(fs, fault, GtiDir(marg[i]))
       IN  /\ fs' = m.fs
           /\ created' = created \o m.made
           /\ IF m.ok
              THEN MgrReturn(i, Res("Ok", GtiDir(marg[i]), NoIo))
              ELSE MgrReturn(i, Res("Err", GtiDir(marg[i]),
                                    IoErr("create", GtiDir(marg[i]), m.kind)))
    /\ UNCHANGED << fs0, fault, pc, locVars, outVars, marg, calls, passed, overlap,
                    envRemoved >>

\* ------------------------------------------------------------------ main

\* Err(e) => { fallback_log!(e); exit(1); }
MainLocatorErr ==
    /\ pc = "returned"
    /\ result.tag # "Ok"
    /\ stdout' = Append(stdout, FallbackLog(result))
    /\ exitCode' = 1
    /\ pc' = "exit"
    /\ UNCHANGED << fs, fs0, fault, locVars, stderr, mgrVars, envRemoved >>

\* Ok(path) => path, then GtiManager::new(&repo_git_dir) is entered.
MainCallMgr ==
    /\ pc = "returned"
    /\ result.tag = "Ok"
    /\ MgrEnter(1, result.path)
    /\ pc' = "mgr"
    /\ UNCHANGED << fs, fs0, fault, locVars, outVars, created, envRemoved >>

\* `?` on the manager's result, then Ok(()): main returns io::Result<()>, and
\* an Err returned from main is reported on standard error with status 1.
MainReturn ==
    /\ pc = "mgr"
    /\ mpc[1] = "done"
    /\ IF mres[1].tag = "Ok"
       THEN exitCode' = 0 /\ stderr' = stderr
       ELSE exitCode' = 1 /\ stderr' = Append(stderr, "Error: " \o mres[1].io.kind)
    /\ pc' = "exit"
    /\ UNCHANGED << fs, fs0, fault, locVars, stdout, mgrVars, envRemoved >>

Next ==
    \/ GitVersionCheck
    \/ ReadCwd
    \/ ListDir
    \/ LoopExit
    \/ MainLocatorErr
    \/ MainCallMgr
    \/ MgrCheckParent(1)
    \/ MgrCheckSidecar(1)
    \/ MgrCreate(1)
    \/ MainReturn

Spec == Init /\ [][Next]_vars

\* ------------------------------------- GtiManager::new called as a library

\* The callers' repo_git_dir: `.git` of the directory they work in, as the
\* integration test passes it after set_current_dir.
RepoGitDir == Join(cwd, LookFor)

\* Only the callers' directory may hold a `.git` entry.
InitMgr ==
    /\ InitCommon
    /\ fault = NoFault
    /\ gitOutcome = "ok"
    /\ cwd \in ChainDirs
    /\ \A g \in GitPaths \ {RepoGitDir} : fs[g] = "none"
    /\ pc = "lib"

\* A caller (a test, or another process's main) calls GtiManager::new.
MgrCall(i) ==
    /\ pc = "lib"
    /\ ~Busy(i)
    /\ calls[i] < MaxCalls
    /\ MgrEnter(i, RepoGitDir)
    /\ UNCHANGED << fs, fs0, fault, pc, locVars, outVars, created, envRemoved >>

\* Something else removes the `.git` directory and what is in it, as the
\* test's cleanup does with remove_dir_all.
EnvRemove ==
    /\ pc = "lib"
    /\ ~envRemoved
    /\ fs[RepoGitDir] = "dir"
    /\ fs' = [fs EXCEPT ![RepoGitDir] = "none", ![GtiDir(RepoGitDir)] = "none"]
    /\ envRemoved' = TRUE
    /\ UNCHANGED << fs0, fault, pc, locVars, outVars, mgrVars >>

NextMgr ==
    \/ \E i \in Instances : MgrCall(i)
    \/ \E i \in Instances : MgrCheckParent(i)
    \/ \E i \in Instances : MgrCheckSidecar(i)
    \/ \E i \in Instances : MgrCreate(i)
    \/ EnvRemove

SpecMgr == InitMgr /\ [][NextMgr]_vars

\* ============================================================== claims

HasGit(f, d) == f[Join(d, LookFor)] # "none"
AtOrAbove(c) == {Chain(k) : k \in 0..Len(c)}
Root == << >>
BelowRoot(c) == AtOrAbove(c) \ {Root}

\* The deepest directory of S: the one fewest ascent steps from cwd.
Nearest(S) == CHOOSE d \in S : \A e \in S : Len(e) <= Len(d)

LocatorReturned == pc \in {"returned", "mgr", "exit"}
SearchRan == LocatorReturned /\ gitOutcome = "ok"

\* C1: with the git check passed and no I/O error, if the working directory
\* or any ancestor (the root included) holds an entry named `.git`, the
\* Locator returns Ok(<d>/.git) for the nearest such directory d, and every
\* Ok result ends in the component `.git`.
C1_NearestAtOrAbove ==
    /\ (SearchRan /\ seenIo = {} /\ \E d \in AtOrAbove(cwd) : HasGit(fs0, d))
          => result = Res("Ok",
                          Join(Nearest({d \in AtOrAbove(cwd) : HasGit(fs0, d)}), LookFor),
                          NoIo)
    /\ result.tag = "Ok" => FileName(result.path) = << LookFor >>

\* C1 away from the root: the same statement for the directories the loop
\* lists, the working directory and its ancestors below the root.
C1_NearestBelowRoot ==
    /\ (SearchRan /\ seenIo = {} /\ \E d \in BelowRoot(cwd) : HasGit(fs0, d))
          => result = Res("Ok",
                          Join(Nearest({d \in BelowRoot(cwd) : HasGit(fs0, d)}), LookFor),
                          NoIo)
    /\ result.tag = "Ok" => FileName(result.path) = << LookFor >>

C3_GitCheckFirst ==
    /\ (pc # "start" /\ gitOutcome = "spawn_fail")
          => /\ result = Res("GitNotInstalled", NoPath, NoIo)
             /\ cwdReads = 0
             /\ listed = << >>
    /\ (pc # "start" /\ gitOutcome = "nonzero")
          => /\ result = Res("GitValidation", NoPath, NoIo)
             /\ cwdReads = 0
             /\ listed = << >>
    /\ (cwdReads > 0 \/ listed # << >> \/ pc \in {"read_cwd", "loop"})
          => gitOutcome = "ok" /\ spawnAttempts = 1

\* A run whose git exits nonzero although `.git` is right in the working
\* directory.
C3_Witness ==
    /\ pc = "exit"
    /\ gitOutcome = "nonzero"
    /\ Len(cwd) > 0
    /\ HasGit(fs0, cwd)

\* C6: every I/O error the search meets (current_dir, read_dir, or one entry
\* of a listing) ends the search at once, and the Locator returns
\* RepositoryUnsearchable wrapping that error.
C6_IoErrorAborts ==
    /\ (LocatorReturned /\ seenIo # {})
          => result.tag = "RepositoryUnsearchable" /\ result.io \in seenIo
    /\ pc = "loop" => seenIo = {}

\* C7: main exits 0 and prints nothing when the Locator and the manager both
\* succeed; on any failure it prints exactly one line `gti: <message>` on
\* standard output and exits 1; the manager is entered only after an Ok
\* Locator result, with the path the Locator returned.
C7_ExitAndOutput ==
    /\ pc = "exit" =>
          IF result.tag = "Ok" /\ mres[1].tag = "Ok"
          THEN exitCode = 0 /\ stdout = << >>
          ELSE /\ exitCode = 1
               /\ Len(stdout) = 1
               /\ stdout[1] = LogPrefix \o
                     Display(IF result.tag = "Ok" THEN mres[1] ELSE result)
    /\ calls[1] > 0 => result.tag = "Ok" /\ marg[1] = result.path

\* C9 as stated: the Locator runs exactly one child process on every path,
\* changes nothing on disk, and a whole run of main creates at most the one
\* directory <located .git>/x-gti-info.
FrameOfRun ==
    /\ pc \in {"start", "read_cwd", "loop", "returned"} => fs = fs0
    /\ Len(created) <= 1
    /\ \/ fs = fs0 /\ created = << >>
       \/ /\ result.tag = "Ok"
          /\ fs0[GtiDir(result.path)] = "none"
          /\ fs = [fs0 EXCEPT ![GtiDir(result.path)] = "dir"]
          /\ created = << GtiDir(result.path) >>
C9_OneChildAlways ==
    /\ pc # "start" => children = 1
    /\ FrameOfRun

\* C9 amended: the Locator calls Command::status exactly once, which runs
\* one child process, or none when git cannot be spawned; the frame on the
\* filesystem is as stated.
C9_OneSpawnAttempt ==
    /\ pc = "start" => spawnAttempts = 0 /\ children = 0
    /\ pc # "start" =>
          /\ spawnAttempts = 1
          /\ children = IF gitOutcome = "spawn_fail" THEN 0 ELSE 1
    /\ FrameOfRun

\* A finished run that created the sidecar under the located `.git`.
C9_Witness ==
    /\ pc = "exit"
    /\ exitCode = 0
    /\ children = 1
    /\ created = << GtiDir(result.path) >>
    /\ fs # fs0

\* C10: an Ok result of the Locator is a directory, so that, creation being
\* permitted, the manager main then builds succeeds; a `.git` that is not a
\* directory never makes the Locator succeed and the sidecar creation fail.
C10_OnlyDirectory ==
    /\ result.tag = "Ok" => fs0[result.path] = "dir"
    /\ (pc = "exit" /\ result.tag = "Ok" /\ fault.kind # "create")
          => mres[1].tag = "Ok"

\* ---------------------------------------------- claims about SpecMgr

Completed == calls[1] + calls[2] - Cardinality({i \in Instances : Busy(i)})
WithSidecar(f, g) == [f EXCEPT ![GtiDir(g)] = "dir"]

\* C4: for an existing `.git` directory without a sidecar, calls of
\* GtiManager::new one after another all return Ok; from the first return on
\* the sidecar is a directory and the filesystem stays as the first call
\* left it, with one creation in all.
C4_Idempotent ==
    (/\ pc = "lib"
     /\ fs0[RepoGitDir] = "dir"
     /\ fs0[GtiDir(RepoGitDir)] = "none"
     /\ ~overlap
     /\ ~envRemoved)
    => /\ \A i \in Instances :
             mpc[i] = "done" => mres[i] = Res("Ok", GtiDir(RepoGitDir), NoIo)
       /\ Completed >= 1 =>
             /\ fs = WithSidecar(fs0, RepoGitDir)
             /\ created = << GtiDir(RepoGitDir) >>
       /\ Completed = 0 => \/ fs = fs0 /\ created = << >>
                           \/ fs = WithSidecar(fs0, RepoGitDir)

\* Three or more calls, one after another, on a `.git` that had no sidecar.
C4_Witness ==
    /\ pc = "lib"
    /\ fs0[RepoGitDir] = "dir"
    /\ fs0[GtiDir(RepoGitDir)] = "none"
    /\ ~overlap
    /\ ~envRemoved
    /\ Completed >= 3
    /\ \A i \in Instances : mpc[i] = "done"

\* C5: a call on a repo_git_dir that does not exist returns NotFound and
\* changes nothing; what the tool creates is only ever x-gti-info directly
\* under a directory passed as repo_git_dir, and a parent removed between
\* the existence check and the creation is not created again.
C5_ParentMustExist ==
    pc = "lib" =>
    /\ fs0[RepoGitDir] = "none" =>
          /\ fs = fs0
          /\ created = << >>
          /\ \A i \in Instances : mpc[i] = "done" =>
                mres[i] = Res("Err", RepoGitDir, IoErr("new", RepoGitDir, "NotFound"))
    /\ \A i \in Instances : (mpc[i] = "done" /\ mres[i].io.op = "new") =>
          /\ mres[i].io.kind = "NotFound"
          /\ fs[marg[i]] = "none"
          /\ fs[GtiDir(marg[i])] = "none"
    /\ \A k \in DOMAIN created :
          /\ FileName(created[k]) = << SidecarName >>
          /\ Parent(created[k]) \in passed
          /\ fs[created[k]] = "dir" => fs[Parent(created[k])] = "dir"
    /\ envRemoved => fs[RepoGitDir] = "none" /\ fs[GtiDir(RepoGitDir)] = "none"
    /\ \A p \in Paths \ SidePaths : fs[p] \in {fs0[p], "none"}

\* The parent was removed between the existence check and the creation: the
\* non-recursive create fails with NotFound.
C5_Witness ==
    /\ pc = "lib"
    /\ envRemoved
    /\ \E i \in Instances :
          /\ mpc[i] = "done"
          /\ mres[i].io = IoErr("create", GtiDir(RepoGitDir), "NotFound")

BothFinishedOnce == \A i \in Instances : calls[i] = 1 /\ mpc[i] = "done"

\* C8: two instances each running GtiManager::new once on the same existing
\* `.git` directory, interleaved in any way: when both have finished the
\* sidecar is a directory, created once if it was missing, nothing else has
\* changed, at least one returned Ok, and the other returned Ok or, having
\* lost the race, the io::Error AlreadyExists.
C8_RaceTolerated ==
    (/\ pc = "lib"
     /\ fs0[RepoGitDir] = "dir"
     /\ ~envRemoved
     /\ BothFinishedOnce)
    => /\ fs = WithSidecar(fs0, RepoGitDir)
       /\ Len(created) = IF fs0[GtiDir(RepoGitDir)] = "none" THEN 1 ELSE 0
       /\ \E i \in Instances : mres[i] = Res("Ok", GtiDir(RepoGitDir), NoIo)
       /\ \A i \in Instances :
             \/ mres[i] = Res("Ok", GtiDir(RepoGitDir), NoIo)
             \/ /\ overlap
                /\ mres[i] = Res("Err", GtiDir(RepoGitDir),
                                 IoErr("create", GtiDir(RepoGitDir), "AlreadyExists"))

\* Both finished and one of them lost the check-then-create race.
C8_Witness ==
    /\ pc = "lib"
    /\ ~envRemoved
    /\ BothFinishedOnce
    /\ \E i \in Instances : mres[i].io.kind = "AlreadyExists"
    /\ \E i \in Instances : mres[i].tag = "Ok"

====
